---- MODULE Spec2Model ----
(***************************************************************************)
(* Optimal-statistic post-processing of the 12.5yr stochastic analysis     *)
(* notebooks: inverse-variance weighted averaging, fixed-width and         *)
(* fixed-count binning of pulsar-pair cross-correlations.                  *)
(*                                                                         *)
(* Numbers are binary floating-point values.  numpy float64 carries a      *)
(* 53-bit significand; the model keeps the same round-to-nearest-even      *)
(* arithmetic, the same infinities and NaN, at a significand of Precision  *)
(* bits.  The exponent range is not bounded (no overflow or underflow).    *)
(***************************************************************************)
EXTENDS Integers, Sequences, FiniteSets, TLC

\* ------------------------------------------------------------------ bounds
Precision == 4
MaxLen == 2
MaxPairs == 3
MaxRows == 4
MaxDraws == 2
MaxDepth == 3
MaxRuns == 3

\* ------------------------------------------------- floating-point numbers
\* A number is [k |-> "fin", n, d] (the rational n/d in lowest terms, d > 0),
\* [k |-> "inf", n |-> +1 or -1, d |-> 0], or [k |-> "nan", n |-> 0, d |-> 0].

Pow2(k) == 2^k

Abs(a) == IF a < 0 THEN -a ELSE a

Sgn(a) == IF a < 0 THEN -1 ELSE IF a > 0 THEN 1 ELSE 0

RECURSIVE GCD(_, _)
GCD(a, b) == IF b = 0 THEN a ELSE GCD(b, a % b)

NaN == [k |-> "nan", n |-> 0, d |-> 0]

Inf(s) == [k |-> "inf", n |-> s, d |-> 0]

\* the rational n/d (d # 0) in lowest terms
Rat(n, d) ==
  LET g == GCD(Abs(n), Abs(d))
  IN  [k |-> "fin", n |-> (Sgn(d) * n) \div g, d |-> Abs(d) \div g]

Zero == Rat(0, 1)

One == Rat(1, 1)

IsFin(a) == a.k = "fin"

IsNaN(a) == a.k = "nan"

\* smallest u >= 0 with a * 2^u >= d * 2^(Precision-1)
RECURSIVE ScaleUp(_, _, _)
ScaleUp(a, d, u) ==
  IF a * Pow2(u) >= d * Pow2(Precision - 1) THEN u ELSE ScaleUp(a, d, u + 1)

\* smallest w >= 0 with a < d * 2^(Precision+w)
RECURSIVE ScaleDown(_, _, _)
ScaleDown(a, d, w) ==
  IF a < d * Pow2(Precision + w) THEN w ELSE ScaleDown(a, d, w + 1)

\* the exact rational n/d (d > 0) rounded to Precision significant bits,
\* round to nearest, ties to even
Round(n, d) ==
  IF n = 0 THEN Zero
  ELSE LET a  == Abs(n)
           w  == ScaleDown(a, d, 0)
           u  == IF w > 0 THEN 0 ELSE ScaleUp(a, d, 0)
           N  == a * Pow2(u)
           D  == d * Pow2(w)
           q  == N \div D
           r  == N % D
           m  == IF 2 * r > D \/ (2 * r = D /\ q % 2 = 1) THEN q + 1 ELSE q
       IN  Rat(Sgn(n) * m * Pow2(w), Pow2(u))

\* a value of the input domain: the float nearest to n/d
Flt(n, d) == Round(n, d)

\* a < b, a <= b on numbers (every comparison with NaN is false)
Less(a, b) ==
  /\ ~IsNaN(a) /\ ~IsNaN(b)
  /\ IF IsFin(a) /\ IsFin(b) THEN a.n * b.d < b.n * a.d
     ELSE IF IsFin(a) THEN b.n > 0
     ELSE IF IsFin(b) THEN a.n < 0
     ELSE a.n < b.n

Leq(a, b) == ~IsNaN(a) /\ ~IsNaN(b) /\ ~Less(b, a)

Neg(a) == IF IsFin(a) THEN Rat(-a.n, a.d) ELSE IF IsNaN(a) THEN NaN ELSE Inf(-a.n)

\* IEEE-754 addition
fadd(a, b) ==
  IF IsNaN(a) \/ IsNaN(b) THEN NaN
  ELSE IF IsFin(a) /\ IsFin(b) THEN Round(a.n * b.d + b.n * a.d, a.d * b.d)
  ELSE IF IsFin(a) THEN b
  ELSE IF IsFin(b) THEN a
  ELSE IF a.n = b.n THEN a ELSE NaN

fsub(a, b) == fadd(a, Neg(b))

\* IEEE-754 multiplication
fmul(a, b) ==
  IF IsNaN(a) \/ IsNaN(b) THEN NaN
  ELSE IF IsFin(a) /\ IsFin(b) THEN Round(a.n * b.n, a.d * b.d)
  ELSE IF Sgn(a.n) * Sgn(b.n) = 0 THEN NaN
  ELSE Inf(Sgn(a.n) * Sgn(b.n))

\* numpy float64 division: x/0 is +-inf, 0/0 is nan (a RuntimeWarning, no exception)
fdiv(a, b) ==
  IF IsNaN(a) \/ IsNaN(b) THEN NaN
  ELSE IF IsFin(a) /\ IsFin(b) THEN
         IF b.n = 0 THEN (IF a.n = 0 THEN NaN ELSE Inf(Sgn(a.n)))
         ELSE Round(a.n * b.d * Sgn(b.n), a.d * Abs(b.n))
  ELSE IF IsFin(a) THEN Zero
  ELSE IF IsFin(b) THEN Inf(a.n * (IF b.n < 0 THEN -1 ELSE 1))
  ELSE NaN

\* largest q >= lo with q * q * D <= N
RECURSIVE ISqrt(_, _, _)
ISqrt(N, D, q) == IF (q + 1) * (q + 1) * D <= N THEN ISqrt(N, D, q + 1) ELSE q

\* smallest u >= 0 with a * 4^u >= d * 4^(Precision-1)
RECURSIVE ScaleUp4(_, _, _)
ScaleUp4(a, d, u) ==
  IF a * Pow2(2 * u) >= d * Pow2(2 * Precision - 2) THEN u ELSE ScaleUp4(a, d, u + 1)

\* smallest w >= 0 with a < d * 4^(Precision+w)
RECURSIVE ScaleDown4(_, _, _)
ScaleDown4(a, d, w) ==
  IF a < d * Pow2(2 * Precision + 2 * w) THEN w ELSE ScaleDown4(a, d, w + 1)

\* np.sqrt: correctly rounded square root; nan below zero
fsqrt(a) ==
  IF IsNaN(a) THEN NaN
  ELSE IF ~IsFin(a) THEN (IF a.n > 0 THEN a ELSE NaN)
  ELSE IF a.n < 0 THEN NaN
  ELSE IF a.n = 0 THEN Zero
  ELSE LET w == ScaleDown4(a.n, a.d, 0)
           u == IF w > 0 THEN 0 ELSE ScaleUp4(a.n, a.d, 0)
           N == a.n * Pow2(2 * u)
           D == a.d * Pow2(2 * w)
           q == ISqrt(N, D, Pow2(Precision - 1))
           m == IF 4 * N > (4 * q * q + 4 * q + 1) * D THEN q + 1 ELSE q
       IN  Rat(m * Pow2(w), Pow2(u))

\* exact (unrounded) rational arithmetic on finite numbers
radd(a, b) == Rat(a.n * b.d + b.n * a.d, a.d * b.d)

rmul(a, b) == Rat(a.n * b.n, a.d * b.d)

rdiv(a, b) == Rat(a.n * b.d, a.d * b.n)

\* -------------------------------------------------------------- the state
VARIABLES
  pc,          \* position in the cell or call being executed
  zeta,        \* bin_crosscorr's bin edges
  xi,          \* angular separations of the pulsar pairs (compute_os)
  rho,         \* cross-correlations of the pairs
  sig,         \* uncertainties of the cross-correlations
  ret,         \* what the called function returned or raised
  idx,         \* np.argsort(xi), as 1-based positions
  xi_sorted, rho_sorted, sig_sorted,
  npairs,      \* pairs per bin
  i,           \* loop index of the fixed-count binning (0-based)
  xi_mean, xi_err, rho_avg, sig_avg,
  bins,        \* history: for each appended bin, the slice of idx it was computed from
  hd_zeta,     \* the angles handed to get_HD_curve (its parameter zeta), so far
  burn_fraction, \* the burn-in fraction of the chain ("0.25")
  chain,       \* the samples of the Bayesian search: a row per iteration, a column per parameter
  params,      \* the parameter names of the chain's columns (pars in the Bayesian notebooks)
  burn,        \* number of leading rows taken as burn-in
  N,           \* number of noise draws
  noisemarg_OS, noisemarg_OS_err,
  param_dict,  \* the mapping handed to compute_os
  draws,       \* history: the row index of every finished draw
  label,       \* the parameter name looked up in the name list
  q,           \* the percentile asked of np.percentile
  chain_burn,  \* chain[burn:, :]
  ind,         \* column of the chain that belongs to label
  samples,     \* chain[burn:, ind], the post-burn-in samples of that column
  upper,       \* the upper limit
  ind_model,   \* column of the model index nmodel
  ind_gwamp,   \* column of gw_log10_A
  rows0,       \* rows of chain_burn picked by chain_burn[:, ind_model] < 0.5
  rows1,       \* rows of chain_burn picked by chain_burn[:, ind_model] > 0.5
  cwd,         \* the process's working directory, as the components of its path
  datadir,     \* the data directory the path-setup cell computes
  executions   \* history: the working directory before and after each execution
               \* of the path-setup cell, and the datadir it set

cell == <<idx, xi_sorted, rho_sorted, sig_sorted, npairs, i,
          xi_mean, xi_err, rho_avg, sig_avg, bins>>

\* the variables of the chain cells: noise marginalization and post-processing
\* the variables of the post-processing cells alone
pp == <<label, q, chain_burn, ind, samples, upper>>

\* the variables of the model-selection cells alone
ms == <<ind_model, ind_gwamp, rows0, rows1>>

\* the variables of the path-setup cell
path == <<cwd, datadir, executions>>

post == <<hd_zeta, burn_fraction, chain, params, burn, N, noisemarg_OS,
          noisemarg_OS_err, param_dict, draws, pp, ms, path>>

vars == <<pc, zeta, xi, rho, sig, ret, cell, post>>

\* sequences over S of length 0..n
SeqsUpTo(S, n) == UNION {[1..k -> S] : k \in 0..n}

Min2(a, b) == IF a < b THEN a ELSE b

\* ------------------------------------------------------------ weightedavg
\* an exception leaving a function
Raised(e) == [exc |-> e]

\* (mutant) the weights taken as 1/s instead of 1/s^2
RECURSIVE wa_loop_unsquared(_, _, _, _)
wa_loop_unsquared(r, s, k, acc) ==
  IF k > Min2(Len(r), Len(s)) THEN acc
  ELSE wa_loop_unsquared(r, s, k + 1,
         [weights |-> fadd(acc.weights, fdiv(One, s[k])),
          avg     |-> fadd(acc.avg, fdiv(r[k], s[k])),
          np      |-> TRUE])

\* (mutant) the sum of weights overwritten where it should accumulate
RECURSIVE wa_loop_overwrite(_, _, _, _)
wa_loop_overwrite(r, s, k, acc) ==
  IF k > Min2(Len(r), Len(s)) THEN acc
  ELSE wa_loop_overwrite(r, s, k + 1,
         [weights |-> fdiv(One, fmul(s[k], s[k])),
          avg     |-> fadd(acc.avg, fdiv(r[k], fmul(s[k], s[k]))),
          np      |-> TRUE])

\* the loop of weightedavg over zip(rho, sig) from element k on.  acc.np says
\* whether the accumulators have become numpy float64 (after the first +=
\* with an array element) or are still the Python floats 0.
RECURSIVE wa_loop(_, _, _, _)
wa_loop(r, s, k, acc) ==
  IF k > Min2(Len(r), Len(s)) THEN acc
  ELSE wa_loop(r, s, k + 1,
         [weights |-> fadd(acc.weights, fdiv(One, fmul(s[k], s[k]))),
          avg     |-> fadd(acc.avg, fdiv(r[k], fmul(s[k], s[k]))),
          np      |-> TRUE])

\* avg/weights of two Python floats raises ZeroDivisionError on a zero divisor;
\* of numpy float64 it follows IEEE-754
weightedavg(r, s) ==
  LET acc == wa_loop(r, s, 1, [weights |-> Zero, avg |-> Zero, np |-> FALSE])
  IN  IF ~acc.np /\ acc.weights = Zero THEN Raised("ZeroDivisionError")
      ELSE [exc   |-> "none",
            mu    |-> fdiv(acc.avg, acc.weights),
            sigma |-> fsqrt(fdiv(One, acc.weights))]

\* the binning cell's variables while no cell is being executed
CellUnused ==
  /\ idx = <<>> /\ xi_sorted = <<>> /\ rho_sorted = <<>> /\ sig_sorted = <<>>
  /\ npairs = 0 /\ i = 0
  /\ xi_mean = <<>> /\ xi_err = <<>> /\ rho_avg = <<>> /\ sig_avg = <<>>
  /\ bins = <<>>

\* the post-processing cells' variables before those cells run
PPUnused ==
  /\ label = "" /\ q = Zero /\ chain_burn = <<>> /\ ind = 0
  /\ samples = <<>> /\ upper = Zero

\* the model-selection cells' variables before those cells run
MSUnused == ind_model = 0 /\ ind_gwamp = 0 /\ rows0 = {} /\ rows1 = {}

\* the path-setup cell's variables in the other cells
PathUnused == cwd = <<>> /\ datadir = <<>> /\ executions = <<>>

\* the chain cells' variables while no chain has been loaded
PostUnused ==
  /\ hd_zeta = <<>>
  /\ burn_fraction = Zero /\ chain = <<>> /\ params = <<>>
  /\ burn = 0 /\ N = 0
  /\ noisemarg_OS = <<>> /\ noisemarg_OS_err = <<>>
  /\ param_dict = <<>> /\ draws = <<>>
  /\ PPUnused
  /\ MSUnused
  /\ PathUnused

\* ---------------------------------------- specification: weightedavg alone
RhoVals == {Flt(-3, 1), Flt(1, 1), Flt(5, 1), Flt(7, 1)}

SigVals == {Flt(-2, 1), Zero, Flt(1, 1), Flt(3, 1), Flt(5, 1)}

InitWA ==
  /\ pc = "call"
  /\ rho \in SeqsUpTo(RhoVals, MaxLen)
  /\ sig \in SeqsUpTo(SigVals, MaxLen)
  /\ zeta = <<>> /\ xi = <<>>
  /\ ret = Raised("none")
  /\ CellUnused
  /\ PostUnused

CallWeightedavg ==
  /\ pc = "call"
  /\ ret' = weightedavg(rho, sig)
  /\ pc' = IF ret'.exc = "none" THEN "returned" ELSE "raised"
  /\ UNCHANGED <<zeta, xi, rho, sig, cell, post>>

NextWA == CallWeightedavg

SpecWA == InitWA /\ [][NextWA]_vars

\* f[1] + ... + f[n] in floating point, summed in index order
RECURSIVE SumTo(_, _)
SumTo(f, n) == IF n = 0 THEN Zero ELSE fadd(SumTo(f, n - 1), f[n])

\* ------------------------------------------- the fixed-count binning cell
\* a slice bound as Python resolves it: a negative bound counts from the end,
\* and the result is clipped to 0..n
SliceBound(a, n) == IF a < 0 THEN (IF a + n < 0 THEN 0 ELSE a + n) ELSE Min2(a, n)

\* Python's seq[a:b] (0-based, b exclusive; empty when the bounds cross)
Slice(seq, a, b) == SubSeq(seq, SliceBound(a, Len(seq)) + 1, SliceBound(b, Len(seq)))

\* numpy fancy indexing x[p], p a sequence of 1-based positions
Take(x, p) == [k \in 1..Len(p) |-> x[p[k]]]

Perms(m) == {p \in [1..m -> 1..m] : \A a, b \in 1..m : p[a] = p[b] => a = b}

\* np.argsort(x) with the default kind ('quicksort', which numpy documents as
\* not stable): any permutation that puts x in non-decreasing order
argsort(x) ==
  {p \in Perms(Len(x)) : \A a, b \in 1..Len(x) : a < b => Leq(x[p[a]], x[p[b]])}

\* np.mean: the sum in index order divided by the count (nan when empty)
np_mean(a) == fdiv(SumTo(a, Len(a)), Flt(Len(a), 1))

\* np.std: sqrt(mean(abs(a - mean(a))**2))
np_std(a) ==
  LET m == np_mean(a)
  IN  fsqrt(np_mean([k \in 1..Len(a) |-> fmul(fsub(a[k], m), fsub(a[k], m))]))

\* the slices one loop iteration reads
XiRun(j) == Slice(xi_sorted, j, npairs + j)

RhoRun(j) == Slice(rho_sorted, j, npairs + j)

\* (mutant) the uncertainties read from the array that was not reordered
SigRun_unsorted(j) == Slice(sig, j, npairs + j)

SigRun(j) == Slice(sig_sorted, j, npairs + j)

\* (mutant) the loop index stepping one pair too far
NextIndex_overstep(j) == j + npairs + 1

\* (mutant) the loop index never advanced
NextIndex_stay(j) == j

\* i += npairs
NextIndex(j) == j + npairs

\* the (xi, rho, sig) of a pulsar pair; some pairs share their xi
PairVals ==
  { <<Flt(2, 1), Flt(1, 1), Flt(1, 1)>>,
    <<Flt(1, 1), Flt(1, 1), Flt(3, 1)>>,
    <<Flt(1, 1), Flt(5, 1), Flt(3, 1)>>,
    <<Flt(2, 1), Flt(5, 1), Flt(1, 1)>> }

\* compute_os has returned xi, rho, sig: one entry per pulsar pair; npairs is
\* the cell's pairs-per-bin setting
Init ==
  /\ pc = "sort"
  /\ \E m \in 0..MaxPairs : \E pairs \in [1..m -> PairVals] :
       /\ xi = [k \in 1..m |-> pairs[k][1]]
       /\ rho = [k \in 1..m |-> pairs[k][2]]
       /\ sig = [k \in 1..m |-> pairs[k][3]]
  /\ npairs \in -1..MaxPairs
  /\ zeta = <<>>
  /\ ret = Raised("none")
  /\ idx = <<>> /\ xi_sorted = <<>> /\ rho_sorted = <<>> /\ sig_sorted = <<>>
  /\ i = 0
  /\ xi_mean = <<>> /\ xi_err = <<>> /\ rho_avg = <<>> /\ sig_avg = <<>>
  /\ bins = <<>>
  /\ PostUnused

\* sort the cross-correlations by xi and set up the loop
SortPairs ==
  /\ pc = "sort"
  /\ idx' \in argsort(xi)
  /\ xi_sorted' = Take(xi, idx')
  /\ rho_sorted' = Take(rho, idx')
  /\ sig_sorted' = Take(sig, idx')
  /\ xi_mean' = <<>> /\ xi_err' = <<>> /\ rho_avg' = <<>> /\ sig_avg' = <<>>
  /\ i' = 0
  /\ bins' = <<>>
  /\ pc' = "loop"
  /\ UNCHANGED <<zeta, xi, rho, sig, ret, npairs, post>>

\* one iteration of the while loop: the xi lists are appended to before
\* weightedavg is called, the rho lists after it has returned
BinStep ==
  /\ pc = "loop"
  /\ i < Len(xi_sorted)
  /\ xi_mean' = Append(xi_mean, np_mean(XiRun(i)))
  /\ xi_err' = Append(xi_err, np_std(XiRun(i)))
  /\ bins' = Append(bins, Slice(idx, i, npairs + i))
  /\ LET w == weightedavg(RhoRun(i), SigRun(i))
     IN  IF w.exc = "none"
         THEN /\ rho_avg' = Append(rho_avg, w.mu)
              /\ sig_avg' = Append(sig_avg, w.sigma)
              /\ i' = NextIndex(i)
              /\ pc' = "loop"
              /\ ret' = ret
         ELSE /\ ret' = w
              /\ pc' = "raised"
              /\ UNCHANGED <<rho_avg, sig_avg, i>>
  /\ UNCHANGED <<zeta, xi, rho, sig, idx, xi_sorted, rho_sorted, sig_sorted, npairs, post>>

\* the loop condition fails; the xi lists become arrays
LoopExit ==
  /\ pc = "loop"
  /\ ~(i < Len(xi_sorted))
  /\ pc' = "done"
  /\ UNCHANGED <<zeta, xi, rho, sig, ret, cell, post>>

Next == SortPairs \/ BinStep \/ LoopExit

Spec == Init /\ [][Next]_vars

\* the steps of BinStep, told by what they do to the loop's history: BinStep
\* is the only action that appends to bins, and it can be taken whenever the
\* loop condition holds
LoopBody ==
  /\ pc = "loop"
  /\ i < Len(xi_sorted)
  /\ bins' = Append(bins, Slice(idx, i, npairs + i))

\* the interpreter goes on executing the cell: the sort is executed, the loop
\* body is executed while the loop condition holds, and the loop is left when
\* it fails
SpecFair ==
  Spec /\ WF_vars(SortPairs) /\ WF_bins(LoopBody) /\ WF_vars(LoopExit)

\* ------------------------------------------------------------ bin_crosscorr
\* the width "10." that bin_crosscorr adds to each left edge
BinWidth == 10

\* the zip(xi, rho, sig) positions whose x satisfies x >= z and x < z + 10.
InRange(z, x, n) ==
  SelectSeq([k \in 1..n |-> k],
            LAMBDA k : Leq(z, x[k]) /\ Less(x[k], fadd(z, Flt(BinWidth, 1))))

\* the loop over enumerate(zeta[:-1]) from bin b on; out holds rho_avg and
\* sig_avg, both created as np.zeros(len(zeta)).  An exception of weightedavg
\* leaves the function.
RECURSIVE bc_loop(_, _, _, _, _, _)
bc_loop(z, x, r, s, b, out) ==
  IF b > Len(z) - 1 THEN out
  ELSE LET n  == Min2(Len(x), Min2(Len(r), Len(s)))
           in == InRange(z[b], x, n)
           w  == weightedavg(Take(r, in), Take(s, in))
       IN  IF w.exc # "none" THEN w
           ELSE bc_loop(z, x, r, s, b + 1,
                  [exc     |-> "none",
                   rho_avg |-> [out.rho_avg EXCEPT ![b] = w.mu],
                   sig_avg |-> [out.sig_avg EXCEPT ![b] = w.sigma]])

bin_crosscorr(z, x, r, s) ==
  bc_loop(z, x, r, s, 1,
          [exc     |-> "none",
           rho_avg |-> [k \in 1..Len(z) |-> Zero],
           sig_avg |-> [k \in 1..Len(z) |-> Zero]])

\* ------------------------------------- specification: bin_crosscorr alone
\* bin edges a caller may pass (ascending)
ZetaVals ==
  { <<>>, <<Zero>>, <<Zero, Flt(10, 1)>>, <<Zero, Flt(10, 1), Flt(20, 1)>>,
    <<Zero, Flt(20, 1)>>, <<Zero, Flt(20, 1), Flt(40, 1)>> }

\* the (xi, rho, sig) of a pair, xi in the unit of the edges
CCPairVals ==
  { <<Flt(4, 1), Flt(1, 1), Flt(1, 1)>>,
    <<Flt(12, 1), Flt(5, 1), Flt(3, 1)>>,
    <<Flt(24, 1), Flt(1, 1), Flt(3, 1)>> }

InitCC ==
  /\ pc = "call"
  /\ zeta \in ZetaVals
  /\ \E m \in 0..MaxPairs : \E pairs \in [1..m -> CCPairVals] :
       /\ xi = [k \in 1..m |-> pairs[k][1]]
       /\ rho = [k \in 1..m |-> pairs[k][2]]
       /\ sig = [k \in 1..m |-> pairs[k][3]]
  /\ ret = Raised("none")
  /\ CellUnused
  /\ PostUnused

CallBinCrosscorr ==
  /\ pc = "call"
  /\ ret' = bin_crosscorr(zeta, xi, rho, sig)
  /\ pc' = IF ret'.exc = "none" THEN "returned" ELSE "raised"
  /\ UNCHANGED <<zeta, xi, rho, sig, cell, post>>

NextCC == CallBinCrosscorr

SpecCC == InitCC /\ [][NextCC]_vars

\* ------------------------------------------- the Hellings-Downs plot cell
\* zeta = np.linspace(0.01,180,100); HD = get_HD_curve(zeta+1).  The angles
\* are kept exact: float64 is within 2^(-53) of them, far below the margins on
\* which their comparisons with 0 and 180 turn.
GridStart == Rat(1, 100)

GridStop == Rat(180, 1)

GridNum == 100

\* np.linspace(start, stop, num): start + k * step with
\* step = (stop - start) / (num - 1), the last sample set to stop
linspace(start, stop, num) ==
  [k \in 1..num |->
     IF k = num /\ num > 1 THEN stop
     ELSE IF num = 1 THEN start
     ELSE radd(rmul(Rat(k - 1, 1), rdiv(radd(stop, Neg(start)), Rat(num - 1, 1))), start)]

\* the argument expression of the call: zeta+1
CurveAngle(z) == radd(z, One)

InitHD ==
  /\ pc = "grid"
  /\ zeta = <<>> /\ xi = <<>> /\ rho = <<>> /\ sig = <<>>
  /\ ret = Raised("none")
  /\ CellUnused
  /\ PostUnused

MakeGrid ==
  /\ pc = "grid"
  /\ zeta' = linspace(GridStart, GridStop, GridNum)
  /\ hd_zeta' = <<>>
  /\ pc' = "curve"
  /\ UNCHANGED <<xi, rho, sig, ret, cell, burn_fraction, chain, params, burn, N,
                 noisemarg_OS, noisemarg_OS_err, param_dict, draws, pp, ms, path>>

\* get_HD_curve works through its argument array element by element
EvalPoint ==
  /\ pc = "curve"
  /\ Len(hd_zeta) < Len(zeta)
  /\ hd_zeta' = Append(hd_zeta, CurveAngle(zeta[Len(hd_zeta) + 1]))
  /\ UNCHANGED <<pc, zeta, xi, rho, sig, ret, cell, burn_fraction, chain, params,
                 burn, N, noisemarg_OS, noisemarg_OS_err, param_dict, draws, pp, ms, path>>

\* the curve is complete and is plotted against zeta
PlotCurve ==
  /\ pc = "curve"
  /\ Len(hd_zeta) = Len(zeta)
  /\ pc' = "plotted"
  /\ UNCHANGED <<zeta, xi, rho, sig, ret, cell, post>>

NextHD == MakeGrid \/ EvalPoint \/ PlotCurve

SpecHD == InitHD /\ [][NextHD]_vars

\* --------------------------------------------------------- the chain cells
\* chain.shape[0]
Shape0(c) == Len(c)

\* int(x) of a float: truncation toward zero
PyInt(x) == Sgn(x.n) * (Abs(x.n) \div x.d)

\* int(0.25*chain.shape[0]), the fraction being the cell's setting
BurnOf(f, c) == PyInt(fmul(f, Flt(Shape0(c), 1)))

\* the 1-based position Python's index j (negative: from the end) has in a
\* sequence of length n; 0 when j is out of range (IndexError)
PyIndex(n, j) ==
  IF j >= 0 THEN (IF j < n THEN j + 1 ELSE 0)
  ELSE (IF j + n >= 0 THEN j + n + 1 ELSE 0)

\* list.index(x): the 0-based position of the first element equal to x
\* (-1 stands for ValueError: x is not in the list)
ListIndex(l, x) ==
  IF \E j \in 1..Len(l) : l[j] = x
  THEN (CHOOSE j \in 1..Len(l) : l[j] = x /\ \A m \in 1..(j - 1) : l[m] # x) - 1
  ELSE -1

\* does chain[r, c] exist (both indices in range)?
HasItem(c, r, j) ==
  /\ PyIndex(Len(c), r) > 0
  /\ PyIndex(Len(c[1]), j) > 0

\* chain[r, c]
Item(c, r, j) == c[PyIndex(Len(c), r)][PyIndex(Len(c[1]), j)]

\* ---------------------------------------------- noise-marginalization loop
\* (mutant) the index drawn from the whole chain, burn-in included
DrawRange_whole(lo, hi) == 0..(hi - 1)

\* np.random.randint(low, high): the integers it can return (none when
\* low >= high, which is a ValueError)
DrawRange(lo, hi) == lo..(hi - 1)

\* the names param_dict gets a key for
Names(ps) == {ps[k] : k \in 1..Len(ps)}

\* (mutant) every value read from the row above the drawn one
ParamDict_rowabove(c, ps, r) ==
  [p \in Names(ps) |-> Item(c, IF r > 0 THEN r - 1 ELSE r, ListIndex(ps, p))]

\* param_dict after the loop over params: p -> chain[idx, params.index(p)]
ParamDict(c, ps, r) == [p \in Names(ps) |-> Item(c, r, ListIndex(ps, p))]

\* can every chain[idx, params.index(p)] be read?
ParamDictOk(c, ps, r) == \A p \in Names(ps) : HasItem(c, r, ListIndex(ps, p))

\* os.compute_os(params=param_dict), the external routine of the optimal
\* statistic: it needs the amplitude of the common process, and what it
\* returns is a fixed function of the values it is given
compute_os(pd) ==
  IF "gw_log10_A" \notin DOMAIN pd THEN Raised("KeyError")
  ELSE [exc |-> "none",
        os  |-> pd["gw_log10_A"],
        err |-> IF "gw_gamma" \in DOMAIN pd
                THEN fmul(pd["gw_gamma"], pd["gw_gamma"]) ELSE One]

\* (mutant) every draw stored in the first slot
OutSlot_first(j) == 1

\* (mutant) the draw stored one slot early
OutSlot_early(j) == IF j = 0 THEN 1 ELSE j

\* the 1-based position of noisemarg_OS[i]
OutSlot(j) == j + 1

\* (mutant) an exception of compute_os swallowed, the loop going on
AfterCall_swallow(w) == "draw"

\* where the cell stands after the call of compute_os: there is no try
\* around it, an exception ends the cell
AfterCall(w) == IF w.exc = "none" THEN "draw" ELSE "raised"

\* row k of the chain: two parameter columns (the second one not in ascending
\* order), then the sampler's four bookkeeping columns
ChainRow(k) ==
  <<Flt(k, 1), Flt((3 * k) % 5, 1), Flt(-2, 1), Flt(-1, 1), Flt(1, 2), One>>

\* the chains: 0..MaxRows rows, without NaN or with NaN in the last row, and
\* two chains without the bookkeeping columns (two and three columns)
Chains ==
  {[k \in 1..R |-> ChainRow(k)] : R \in 0..MaxRows}
  \cup {[k \in 1..R |-> IF k = R THEN <<NaN, NaN, Flt(-2, 1), Flt(-1, 1), Flt(1, 2), One>>
                         ELSE ChainRow(k)] : R \in 1..MaxRows}
  \cup {<<SubSeq(ChainRow(1), 1, 2), SubSeq(ChainRow(2), 1, 2)>>}
  \cup {[k \in 1..3 |-> SubSeq(ChainRow(k), 1, 3)]}

\* the name lists read from params.txt; the last has a name more than the
\* chain has columns
ParamLists ==
  { <<>>, <<"gw_log10_A">>, <<"gw_gamma">>, <<"gw_log10_A", "gw_gamma">>,
    <<"gw_gamma", "gw_log10_A">>, <<"gw_log10_A", "gw_log10_A">>,
    <<"gw_log10_A", "gw_gamma", "nmodel">>,
    <<"gamma_gw", "log10_A_gw">>, <<"log10_A_gw", "nmodel">> }

\* settings of the burn-in fraction (the notebooks have 0.25)
BurnFractions == {Flt(-1, 4), Zero, Flt(1, 4), Flt(1, 2), One}

\* the chain and its names are loaded; N and the burn-in fraction are the
\* cell's settings
InitNM ==
  /\ pc = "cell"
  /\ chain \in Chains
  /\ params \in ParamLists
  /\ burn_fraction \in BurnFractions
  /\ N \in 0..MaxDraws
  /\ zeta = <<>> /\ xi = <<>> /\ rho = <<>> /\ sig = <<>>
  /\ ret = Raised("none")
  /\ CellUnused
  /\ hd_zeta = <<>> /\ burn = 0
  /\ noisemarg_OS = <<>> /\ noisemarg_OS_err = <<>>
  /\ param_dict = <<>> /\ draws = <<>>
  /\ PPUnused
  /\ MSUnused
  /\ PathUnused

\* burn = int(0.25*chain.shape[0]); the outputs are np.zeros(N)
StartNoiseMarg ==
  /\ pc = "cell"
  /\ burn' = BurnOf(burn_fraction, chain)
  /\ noisemarg_OS' = [k \in 1..N |-> Zero]
  /\ noisemarg_OS_err' = [k \in 1..N |-> Zero]
  /\ pc' = "draw"
  /\ UNCHANGED <<zeta, xi, rho, sig, ret, cell, hd_zeta, burn_fraction, chain, params,
                 N, param_dict, draws, pp, ms, path>>

\* one iteration of "for i in range(N)"; Len(draws) iterations have finished
DrawStep ==
  /\ pc = "draw"
  /\ Len(draws) < N
  /\ i' = Len(draws)
  /\ IF DrawRange(burn, Shape0(chain)) = {}
     THEN /\ ret' = Raised("ValueError")
          /\ pc' = "raised"
          /\ UNCHANGED <<idx, param_dict, noisemarg_OS, noisemarg_OS_err, draws>>
     ELSE \E r \in DrawRange(burn, Shape0(chain)) :
          /\ idx' = r
          /\ IF ~ParamDictOk(chain, params, r)
             THEN /\ param_dict' = <<>>
                  /\ ret' = Raised("IndexError")
                  /\ pc' = "raised"
                  /\ UNCHANGED <<noisemarg_OS, noisemarg_OS_err, draws>>
             ELSE /\ param_dict' = ParamDict(chain, params, r)
                  /\ LET w == compute_os(param_dict')
                     IN  /\ pc' = AfterCall(w)
                         /\ IF w.exc = "none"
                            THEN /\ noisemarg_OS' = [noisemarg_OS EXCEPT ![OutSlot(i')] = w.os]
                                 /\ noisemarg_OS_err' =
                                      [noisemarg_OS_err EXCEPT ![OutSlot(i')] = w.err]
                                 /\ draws' = Append(draws, [slot |-> OutSlot(i'), row |-> r])
                                 /\ ret' = ret
                            ELSE /\ ret' = w
                                 /\ UNCHANGED <<noisemarg_OS, noisemarg_OS_err, draws>>
  /\ UNCHANGED <<zeta, xi, rho, sig, xi_sorted, rho_sorted, sig_sorted, npairs,
                 xi_mean, xi_err, rho_avg, sig_avg, bins, hd_zeta, burn_fraction, chain,
                 params, burn, N, pp, ms, path>>

\* range(N) is exhausted
DrawsDone ==
  /\ pc = "draw"
  /\ Len(draws) >= N
  /\ pc' = "done"
  /\ UNCHANGED <<zeta, xi, rho, sig, ret, cell, post>>

NextNM == StartNoiseMarg \/ DrawStep \/ DrawsDone

SpecNM == InitNM /\ [][NextNM]_vars

\* ------------------------------------------------ the post-processing cells
\* (mutant) the burn-in kept and the rest dropped
TrimRows_head(c, b) == Slice(c, 0, b)

\* chain[burn:, :]
TrimRows(c, b) == Slice(c, b, Len(c))

\* chain.shape[1]; a chain without rows still has its columns
NCols(c) == IF Len(c) = 0 THEN Len(ChainRow(1)) ELSE Len(c[1])

\* chain[burn:, j] for a column j that exists
ColumnOf(c, b, j) ==
  [r \in 1..Len(TrimRows(c, b)) |-> TrimRows(c, b)[r][PyIndex(NCols(c), j)]]

\* the spelling of a name with its case folded
Folded(x) == IF x = "gw_log10_a" THEN "gw_log10_A" ELSE x

\* (mutant) the name looked up without regard to case
NameIndex_nocase(l, x) ==
  IF \E j \in 1..Len(l) : Folded(l[j]) = Folded(x)
  THEN (CHOOSE j \in 1..Len(l) :
          Folded(l[j]) = Folded(x) /\ \A m \in 1..(j - 1) : Folded(l[m]) # Folded(x)) - 1
  ELSE -1

\* (mutant) the position counted from one
NameIndex_onebased(l, x) == IF ListIndex(l, x) < 0 THEN -1 ELSE ListIndex(l, x) + 1

\* list(pars).index(label)
NameIndex(l, x) == ListIndex(l, x)

\* x put into the ascending sequence s
RECURSIVE Insert(_, _)
Insert(x, s) ==
  IF s = <<>> THEN <<x>>
  ELSE IF Leq(x, Head(s)) THEN <<x>> \o s
  ELSE <<Head(s)>> \o Insert(x, Tail(s))

\* the samples in ascending order (np.percentile partitions its copy of them)
RECURSIVE np_sort(_)
np_sort(a) == IF a = <<>> THEN <<>> ELSE Insert(Head(a), np_sort(Tail(a)))

\* (mutant) the weight given to the wrong end of the interval
lerp_swapped(a, b, t) ==
  LET diff_b_a == fsub(b, a)
  IN  fadd(a, fmul(diff_b_a, fsub(One, t)))

\* numpy's _lerp(a, b, t): a + (b - a) * t, taken from b's side for t >= 0.5
lerp(a, b, t) ==
  LET diff_b_a == fsub(b, a)
  IN  IF Leq(Flt(1, 2), t) THEN fsub(b, fmul(diff_b_a, fsub(One, t)))
      ELSE fadd(a, fmul(diff_b_a, t))

\* (mutant) the order statistic below the position, without interpolation
np_percentile_lower(a, p) ==
  IF \E k \in 1..Len(a) : IsNaN(a[k]) THEN NaN
  ELSE LET virtual == fmul(Flt(Len(a) - 1, 1), fdiv(p, Flt(100, 1)))
       IN  np_sort(a)[Min2(virtual.n \div virtual.d, Len(a) - 1) + 1]

\* np.percentile(a, q) of non-empty a, 0 <= q <= 100, default method
\* 'linear': the position (n-1)*q/100 in the sorted samples, interpolated
\* between the order statistics on either side of it; nan when a has a nan
np_percentile(a, p) ==
  IF \E k \in 1..Len(a) : IsNaN(a[k]) THEN NaN
  ELSE LET virtual  == fmul(Flt(Len(a) - 1, 1), fdiv(p, Flt(100, 1)))
           previous == Min2(virtual.n \div virtual.d, Len(a) - 1)
           next     == Min2(previous + 1, Len(a) - 1)
           gamma    == fsub(virtual, Flt(previous, 1))
       IN  lerp(np_sort(a)[previous + 1], np_sort(a)[next + 1], gamma)

\* (mutant) nan for an array without elements
PercentileCall_nan(a, p) ==
  IF a = <<>> THEN [exc |-> "none", val |-> NaN]
  ELSE [exc |-> "none", val |-> np_percentile(a, p)]

\* the call np.percentile(a, q=p), 0 <= p <= 100: of an array without
\* elements it raises IndexError (the last element of the partitioned copy is
\* read to look for nan)
PercentileCall(a, p) ==
  IF a = <<>> THEN Raised("IndexError")
  ELSE [exc |-> "none", val |-> np_percentile(a, p)]

\* 10**x.  The power is kept as a term: its value is not rational, and what
\* the cells do with it is print it.
pow10(x) == IF IsNaN(x) THEN NaN ELSE [k |-> "pow10", x |-> x]

\* the column "-5" the upper limit is computed from
UpperColumn == -5

\* parameter names a cell looks up
Labels == {"gw_log10_A", "gw_log10_a", "gw_gamma", "nmodel", "log10_A_gw"}

\* percentiles asked for (the notebooks have q=95)
QVals == {Zero, Flt(50, 1), Flt(95, 1), Flt(100, 1)}

\* the chain and its names are loaded
InitPP ==
  /\ pc = "burn"
  /\ chain \in Chains
  /\ params \in ParamLists
  /\ burn_fraction \in BurnFractions
  /\ label \in Labels
  /\ q \in QVals
  /\ zeta = <<>> /\ xi = <<>> /\ rho = <<>> /\ sig = <<>>
  /\ ret = Raised("none")
  /\ CellUnused
  /\ hd_zeta = <<>> /\ burn = 0 /\ N = 0
  /\ noisemarg_OS = <<>> /\ noisemarg_OS_err = <<>>
  /\ param_dict = <<>> /\ draws = <<>>
  /\ chain_burn = <<>> /\ ind = 0 /\ samples = <<>> /\ upper = Zero
  /\ MSUnused
  /\ PathUnused

\* burn = int(0.25*chain.shape[0])
ComputeBurn ==
  /\ pc = "burn"
  /\ burn' = BurnOf(burn_fraction, chain)
  /\ pc' = "trim"
  /\ UNCHANGED <<zeta, xi, rho, sig, ret, cell, hd_zeta, burn_fraction, chain, params,
                 N, noisemarg_OS, noisemarg_OS_err, param_dict, draws, pp, ms, path>>

\* chain_burn = chain[burn:,:]
Trim ==
  /\ pc = "trim"
  /\ chain_burn' = TrimRows(chain, burn)
  /\ pc' = "index"
  /\ UNCHANGED <<zeta, xi, rho, sig, ret, cell, hd_zeta, burn_fraction, chain, params,
                 burn, N, noisemarg_OS, noisemarg_OS_err, param_dict, draws,
                 label, q, ind, samples, upper, ms, path>>

\* ind = list(pars).index(label): ValueError when the name is not in the list
FindColumn ==
  /\ pc = "index"
  /\ IF NameIndex(params, label) < 0
     THEN /\ ret' = Raised("ValueError")
          /\ pc' = "raised"
          /\ ind' = ind
     ELSE /\ ind' = NameIndex(params, label)
          /\ pc' = "hist"
          /\ ret' = ret
  /\ UNCHANGED <<zeta, xi, rho, sig, cell, hd_zeta, burn_fraction, chain, params,
                 burn, N, noisemarg_OS, noisemarg_OS_err, param_dict, draws,
                 label, q, chain_burn, samples, upper, ms, path>>

\* plt.hist(chain[burn:,ind]): IndexError when the chain has no column ind
Hist ==
  /\ pc = "hist"
  /\ IF PyIndex(NCols(chain), ind) = 0
     THEN /\ ret' = Raised("IndexError")
          /\ pc' = "raised"
          /\ samples' = samples
     ELSE /\ samples' = ColumnOf(chain, burn, ind)
          /\ pc' = "upper"
          /\ ret' = ret
  /\ UNCHANGED <<zeta, xi, rho, sig, cell, hd_zeta, burn_fraction, chain, params,
                 burn, N, noisemarg_OS, noisemarg_OS_err, param_dict, draws,
                 label, q, chain_burn, ind, upper, ms, path>>

\* upper = 10**np.percentile(chain[burn:, -5], q=95)
UpperLimit ==
  /\ pc = "upper"
  /\ IF PyIndex(NCols(chain), UpperColumn) = 0
     THEN /\ ret' = Raised("IndexError")
          /\ pc' = "raised"
          /\ UNCHANGED <<samples, upper>>
     ELSE /\ samples' = ColumnOf(chain, burn, UpperColumn)
          /\ LET w == PercentileCall(samples', q)
             IN  IF w.exc # "none"
                 THEN /\ ret' = w
                      /\ pc' = "raised"
                      /\ upper' = upper
                 ELSE /\ upper' = pow10(w.val)
                      /\ pc' = "done"
                      /\ ret' = ret
  /\ UNCHANGED <<zeta, xi, rho, sig, cell, hd_zeta, burn_fraction, chain, params,
                 burn, N, noisemarg_OS, noisemarg_OS_err, param_dict, draws,
                 label, q, chain_burn, ind, ms, path>>

NextPP == ComputeBurn \/ Trim \/ FindColumn \/ Hist \/ UpperLimit

SpecPP == InitPP /\ [][NextPP]_vars

\* ------------------------------------- specification: the upper limit alone
\* log-amplitude samples handed to the upper limit
SampleVals == {Flt(-15, 1), Flt(-7, 2), Flt(-1, 8), Flt(5, 16), Flt(3, 1), Flt(13, 1)}

\* percentiles asked for, 0..100
Quantiles ==
  {Zero, Flt(10, 1), Flt(25, 1), Flt(50, 1), Flt(75, 1), Flt(90, 1), Flt(95, 1),
   Flt(100, 1)}

\* chain[burn:, -5] is any column of up to MaxLen + 1 samples
InitUL ==
  /\ pc = "upper"
  /\ samples \in SeqsUpTo(SampleVals \cup {NaN}, MaxLen + 1)
  /\ q \in Quantiles
  /\ zeta = <<>> /\ xi = <<>> /\ rho = <<>> /\ sig = <<>>
  /\ ret = Raised("none")
  /\ CellUnused
  /\ hd_zeta = <<>>
  /\ burn_fraction = Zero /\ chain = <<>> /\ params = <<>>
  /\ burn = 0 /\ N = 0
  /\ noisemarg_OS = <<>> /\ noisemarg_OS_err = <<>>
  /\ param_dict = <<>> /\ draws = <<>>
  /\ label = "" /\ chain_burn = <<>> /\ ind = 0 /\ upper = Zero
  /\ MSUnused
  /\ PathUnused

\* upper = 10**np.percentile(samples, q=q), for the samples as given
PercentileOfColumn ==
  /\ pc = "upper"
  /\ LET w == PercentileCall(samples, q)
     IN  IF w.exc # "none"
         THEN /\ ret' = w
              /\ pc' = "raised"
              /\ upper' = upper
         ELSE /\ upper' = pow10(w.val)
              /\ pc' = "done"
              /\ ret' = ret
  /\ UNCHANGED <<zeta, xi, rho, sig, cell, hd_zeta, burn_fraction, chain, params,
                 burn, N, noisemarg_OS, noisemarg_OS_err, param_dict, draws,
                 label, q, chain_burn, ind, samples, ms, path>>

\* print(upper)
PrintUpper ==
  /\ pc = "done"
  /\ pc' = "printed"
  /\ UNCHANGED <<zeta, xi, rho, sig, ret, cell, post>>

NextUL == PercentileOfColumn \/ PrintUpper

SpecUL == InitUL /\ [][NextUL]_vars

\* -------------------------------------------------- the model-selection cells
\* the rows picked by the mask c[:, j] < 0.5 (j a column that exists, 0-based)
MaskBelow(c, j) == {r \in 1..Len(c) : Less(c[r][j + 1], Flt(1, 2))}

\* the rows picked by the mask c[:, j] > 0.5
MaskAbove(c, j) == {r \in 1..Len(c) : Less(Flt(1, 2), c[r][j + 1])}

\* values the sampler leaves in the nmodel column
NModelVals == {Flt(1, 4), Flt(1, 2), Flt(3, 4)}

\* the chain of a model-selection run whose rows have the model indices m:
\* gw_log10_A and nmodel (nmodel first when the name list has it first), then
\* the four bookkeeping columns
MSChain(m, first) ==
  [k \in 1..Len(m) |->
     IF first THEN <<m[k], Flt(-10 - k, 1), Flt(-2, 1), Flt(-1, 1), Flt(1, 2), One>>
     ELSE <<Flt(-10 - k, 1), m[k], Flt(-2, 1), Flt(-1, 1), Flt(1, 2), One>>]

\* the name lists of the model-selection run, one of them without nmodel
MSParamLists ==
  {<<"gw_log10_A", "nmodel">>, <<"nmodel", "gw_log10_A">>, <<"gw_log10_A", "gw_gamma">>}

\* the chain and its names are loaded
InitMS ==
  /\ pc = "burn"
  /\ params \in MSParamLists
  /\ \E m \in SeqsUpTo(NModelVals, MaxRows) : chain = MSChain(m, params[1] = "nmodel")
  /\ burn_fraction \in BurnFractions
  /\ zeta = <<>> /\ xi = <<>> /\ rho = <<>> /\ sig = <<>>
  /\ ret = Raised("none")
  /\ CellUnused
  /\ hd_zeta = <<>> /\ burn = 0 /\ N = 0
  /\ noisemarg_OS = <<>> /\ noisemarg_OS_err = <<>>
  /\ param_dict = <<>> /\ draws = <<>>
  /\ PPUnused
  /\ MSUnused
  /\ PathUnused

\* ind_model = list(pars).index('nmodel'); ind_gwamp = list(pars).index('gw_log10_A')
FindModelColumns ==
  /\ pc = "index"
  /\ IF NameIndex(params, "nmodel") < 0 \/ NameIndex(params, "gw_log10_A") < 0
     THEN /\ ret' = Raised("ValueError")
          /\ pc' = "raised"
          /\ ind_model' = IF NameIndex(params, "nmodel") < 0 THEN ind_model
                          ELSE NameIndex(params, "nmodel")
          /\ ind_gwamp' = ind_gwamp
     ELSE /\ ind_model' = NameIndex(params, "nmodel")
          /\ ind_gwamp' = NameIndex(params, "gw_log10_A")
          /\ pc' = "hist_hd"
          /\ ret' = ret
  /\ UNCHANGED <<zeta, xi, rho, sig, cell, hd_zeta, burn_fraction, chain, params,
                 burn, N, noisemarg_OS, noisemarg_OS_err, param_dict, draws, pp,
                 rows0, rows1, path>>

\* plt.hist(chain_burn[chain_burn[:, ind_model] > 0.5, ind_gwamp], bins=40)
HistHD ==
  /\ pc = "hist_hd"
  /\ IF PyIndex(NCols(chain), ind_model) = 0 \/ PyIndex(NCols(chain), ind_gwamp) = 0
     THEN /\ ret' = Raised("IndexError")
          /\ pc' = "raised"
          /\ rows1' = rows1
     ELSE /\ rows1' = MaskAbove(chain_burn, ind_model)
          /\ pc' = "hist_model"
          /\ ret' = ret
  /\ UNCHANGED <<zeta, xi, rho, sig, cell, hd_zeta, burn_fraction, chain, params,
                 burn, N, noisemarg_OS, noisemarg_OS_err, param_dict, draws, pp,
                 ind_model, ind_gwamp, rows0, path>>

\* plt.hist(chain_burn[:, ind_model], bins=40)
HistModel ==
  /\ pc = "hist_model"
  /\ pc' = "bayes_fac"
  /\ UNCHANGED <<zeta, xi, rho, sig, ret, cell, post>>

\* print(model_utils.bayes_fac(chain_burn[chain_burn[:, ind_model] < 0.5, ind_gwamp], ntol=1)):
\* the argument is built here, the estimate is the library's and is printed
BayesFac ==
  /\ pc = "bayes_fac"
  /\ rows0' = MaskBelow(chain_burn, ind_model)
  /\ pc' = "odds_ratio"
  /\ UNCHANGED <<zeta, xi, rho, sig, ret, cell, hd_zeta, burn_fraction, chain, params,
                 burn, N, noisemarg_OS, noisemarg_OS_err, param_dict, draws, pp,
                 ind_model, ind_gwamp, rows1, path>>

\* print(model_utils.odds_ratio(chain_burn[:, ind_model], models=[0,1]))
OddsRatio ==
  /\ pc = "odds_ratio"
  /\ pc' = "done"
  /\ UNCHANGED <<zeta, xi, rho, sig, ret, cell, post>>

NextMS == ComputeBurn \/ Trim \/ FindModelColumns \/ HistHD \/ HistModel \/ BayesFac \/ OddsRatio

SpecMS == InitMS /\ [][NextMS]_vars

\* ------------------------------------------------------ the path-setup cell
\* the repository's folder name the cell looks for
FolderName == "12p5yr_stochastic_analysis"

\* os.path.basename of an absolute path without a trailing separator: the
\* last component, '' for the root
Basename(dir) == IF dir = <<>> THEN "" ELSE dir[Len(dir)]

\* the directory os.path.pardir leads to: the parent, the root for the root
Parent(dir) == IF dir = <<>> THEN <<>> ELSE SubSeq(dir, 1, Len(dir) - 1)

\* (mutant) the step to the parent taken without looking at the folder name
chdir_cell_unguarded(dir) == Parent(dir)

\* the working directory after "if foldername != '12p5yr_stochastic_analysis':
\* os.chdir(os.path.pardir)", started in dir
chdir_cell(dir) == IF Basename(dir) # FolderName THEN Parent(dir) ELSE dir

\* os.path.join(dir, 'data')
DataDirOf(dir) == Append(dir, "data")

\* names of directories
DirNames == {FolderName, "tutorials", "home"}

\* the notebook is started in any directory up to MaxDepth levels deep
InitPath ==
  /\ pc = "path"
  /\ cwd \in SeqsUpTo(DirNames, MaxDepth)
  /\ datadir = <<>>
  /\ executions = <<>>
  /\ zeta = <<>> /\ xi = <<>> /\ rho = <<>> /\ sig = <<>>
  /\ ret = Raised("none")
  /\ CellUnused
  /\ hd_zeta = <<>>
  /\ burn_fraction = Zero /\ chain = <<>> /\ params = <<>>
  /\ burn = 0 /\ N = 0
  /\ noisemarg_OS = <<>> /\ noisemarg_OS_err = <<>>
  /\ param_dict = <<>> /\ draws = <<>>
  /\ PPUnused
  /\ MSUnused

\* one execution of the path-setup cell (it stands twice in the notebook and
\* can be executed again at will)
PathSetup ==
  /\ pc = "path"
  /\ Len(executions) < MaxRuns
  /\ cwd' = chdir_cell(cwd)
  /\ datadir' = DataDirOf(cwd')
  /\ executions' = Append(executions,
                          [before |-> cwd, cwd |-> cwd', datadir |-> datadir'])
  /\ UNCHANGED <<pc, zeta, xi, rho, sig, ret, cell, hd_zeta, burn_fraction, chain,
                 params, burn, N, noisemarg_OS, noisemarg_OS_err, param_dict, draws,
                 pp, ms>>

NextPath == PathSetup

SpecPath == InitPath /\ [][NextPath]_vars

\* ----------------------------------------------------- claims: weightedavg
RAbs(a) == Rat(Abs(a.n), a.d)

\* f[1] + ... + f[n] exactly
RECURSIVE ExactSumTo(_, _)
ExactSumTo(f, n) == IF n = 0 THEN Zero ELSE radd(ExactSumTo(f, n - 1), f[n])

PosSig(s) == \A k \in 1..Len(s) : Less(Zero, s[k])

MinOf(r) == CHOOSE a \in {r[k] : k \in 1..Len(r)} : \A k \in 1..Len(r) : Leq(a, r[k])

MaxOf(r) == CHOOSE a \in {r[k] : k \in 1..Len(r)} : \A k \in 1..Len(r) : Leq(r[k], a)

WADone == pc \in {"returned", "raised"}

\* the inputs the contract of weighted_average covers
WAValid == Len(rho) > 0 /\ Len(rho) = Len(sig) /\ PosSig(sig)

SumRhoOverVar == SumTo([k \in 1..Len(rho) |-> fdiv(rho[k], fmul(sig[k], sig[k]))], Len(rho))

SumInvVar == SumTo([k \in 1..Len(rho) |-> fdiv(One, fmul(sig[k], sig[k]))], Len(rho))

ExactMu ==
  rdiv(ExactSumTo([k \in 1..Len(rho) |-> rdiv(rho[k], rmul(sig[k], sig[k]))], Len(rho)),
       ExactSumTo([k \in 1..Len(rho) |-> rdiv(One, rmul(sig[k], sig[k]))], Len(rho)))

MaxAbsOf(r) ==
  CHOOSE a \in {RAbs(r[k]) : k \in 1..Len(r)} : \A k \in 1..Len(r) : Leq(RAbs(r[k]), a)

\* |a - b| <= c * 2^(-Precision) * m, in exact arithmetic
Within(a, b, c, m) ==
  Leq(rmul(RAbs(radd(a, Neg(b))), Rat(Pow2(Precision), 1)), rmul(Rat(c, 1), m))

\* C1: for non-empty equal-length input with positive sigma, weighted_average
\* returns mu = sum(rho_i/sigma_i^2) / sum(1/sigma_i^2) and
\* sigma_mu = sqrt(1 / sum(1/sigma_i^2)), the sums taken in index order in the
\* arithmetic of the code; mu differs from the exact value of the formula by
\* at most (2n+4) * 2^(-Precision) * max|rho_i|, the rounding of its operations.
C1_WeightedAverageFormula ==
  (WADone /\ WAValid) =>
    /\ ret.exc = "none"
    /\ ret.mu = fdiv(SumRhoOverVar, SumInvVar)
    /\ ret.sigma = fsqrt(fdiv(One, SumInvVar))
    /\ Within(ret.mu, ExactMu, 2 * Len(rho) + 4, MaxAbsOf(rho))

C1_Witness ==
  /\ pc = "returned" /\ WAValid /\ Len(rho) = 2
  /\ sig[1] # sig[2] /\ rho[1] # rho[2]
  /\ IsFin(ret.mu) /\ IsFin(ret.sigma)

\* C2 as stated: for non-empty input with positive sigma,
\* min(rho) <= mu <= max(rho).
C2_MeanWithinRange ==
  (WADone /\ WAValid) =>
    /\ ret.exc = "none"
    /\ Leq(MinOf(rho), ret.mu)
    /\ Leq(ret.mu, MaxOf(rho))

\* the rounding allowance e = (2n+4) * 2^(-Precision) * max|rho_i|
RoundingAllowance ==
  rmul(Rat(2 * Len(rho) + 4, Pow2(Precision)), MaxAbsOf(rho))

\* C2 amended: for non-empty input with positive sigma,
\* min(rho) - e <= mu <= max(rho) + e, e the rounding allowance of the
\* floating-point evaluation.
C2_MeanWithinRangeRounded ==
  (WADone /\ WAValid) =>
    /\ ret.exc = "none"
    /\ Leq(radd(MinOf(rho), Neg(RoundingAllowance)), ret.mu)
    /\ Leq(ret.mu, radd(MaxOf(rho), RoundingAllowance))

C2_Witness ==
  /\ pc = "returned" /\ WAValid
  /\ Less(ret.mu, MinOf(rho)) \/ Less(MaxOf(rho), ret.mu)

\* C3: for empty input, or input with a zero or negative sigma, weighted_average
\* fails or returns NaN; it never returns an ordinary finite (mu, sigma_mu).
C3_InvalidInputRejected ==
  (WADone /\ (Min2(Len(rho), Len(sig)) = 0
              \/ \E k \in 1..Min2(Len(rho), Len(sig)) : Leq(sig[k], Zero))) =>
    \/ ret.exc # "none"
    \/ ~(IsFin(ret.mu) /\ IsFin(ret.sigma))

\* ------------------------------------------------ claims: fixed-count binning
\* the bins' source pairs, one after the other
RECURSIVE Flatten(_)
Flatten(ss) == IF ss = <<>> THEN <<>> ELSE Head(ss) \o Flatten(Tail(ss))

CeilDiv(m, n) == (m + n - 1) \div n

\* C4: with pairs_per_bin = N >= 1 over M pairs the finished binning has
\* ceil(M/N) bins, every bin but possibly the last holds N pairs, and the bins
\* together hold every pair exactly once.
C4_FixedCountPartition ==
  (pc = "done" /\ npairs >= 1) =>
    /\ Len(bins) = CeilDiv(Len(xi), npairs)
    /\ Len(rho_avg) = Len(bins) /\ Len(xi_mean) = Len(bins)
    /\ \A k \in 1..Len(bins) :
         /\ k < Len(bins) => Len(bins[k]) = npairs
         /\ Len(bins[k]) >= 1 /\ Len(bins[k]) <= npairs
    /\ Len(Flatten(bins)) = Len(xi)
    /\ {Flatten(bins)[k] : k \in 1..Len(Flatten(bins))} = 1..Len(xi)

C4_Witness ==
  /\ pc = "done" /\ npairs = 2 /\ Len(xi) = 3
  /\ Len(bins) = 2 /\ Len(bins[1]) = 2 /\ Len(bins[2]) = 1

\* C5: the triples are reordered by xi ascending with one shared permutation,
\* and triples with equal xi keep their original relative order.
C5_StableSharedSort ==
  (pc # "sort") =>
    /\ \A a, b \in 1..Len(idx) : a < b => Leq(xi_sorted[a], xi_sorted[b])
    /\ xi_sorted = Take(xi, idx) /\ rho_sorted = Take(rho, idx) /\ sig_sorted = Take(sig, idx)
    /\ \A a, b \in 1..Len(idx) :
         (a < b /\ xi[idx[a]] = xi[idx[b]]) => idx[a] < idx[b]

\* C6: every bin's weighted mean and uncertainty, mean xi and standard
\* deviation of xi are computed over the same run [i, i+pairs_per_bin) of the
\* sorted pairs, and the four output lists have equal length after every loop
\* iteration, also when weighted_average fails for a run.
C6_BinOutputsAligned ==
  (pc # "sort") =>
    /\ Len(xi_mean) = Len(xi_err) /\ Len(xi_err) = Len(rho_avg) /\ Len(rho_avg) = Len(sig_avg)
    /\ \A k \in 1..Len(xi_mean) :
         /\ bins[k] = Slice(idx, (k - 1) * npairs, k * npairs)
         /\ xi_mean[k] = np_mean(Take(xi, bins[k]))
         /\ xi_err[k] = np_std(Take(xi, bins[k]))
         /\ rho_avg[k] = weightedavg(Take(rho, bins[k]), Take(sig, bins[k])).mu
         /\ sig_avg[k] = weightedavg(Take(rho, bins[k]), Take(sig, bins[k])).sigma

\* C7 as stated: with pairs_per_bin = M there is one bin of all pairs, whose
\* weighted average equals weighted_average of the full unsorted pair set.
C7_SingleBinEqualsUnsorted ==
  (pc = "done" /\ npairs = Len(xi) /\ Len(xi) > 0) =>
    /\ Len(rho_avg) = 1 /\ Len(bins[1]) = Len(xi)
    /\ rho_avg[1] = weightedavg(rho, sig).mu
    /\ sig_avg[1] = weightedavg(rho, sig).sigma

\* C7 amended: with pairs_per_bin = M there is one bin of all pairs, whose
\* weighted average equals weighted_average of the full unbinned pair set
\* taken in its xi-sorted order.
C7_SingleBinEqualsSorted ==
  (pc = "done" /\ npairs = Len(xi) /\ Len(xi) > 0) =>
    /\ Len(rho_avg) = 1 /\ Len(sig_avg) = 1
    /\ Len(bins) = 1 /\ {bins[1][k] : k \in 1..Len(bins[1])} = 1..Len(xi)
    /\ rho_avg[1] = weightedavg(Take(rho, idx), Take(sig, idx)).mu
    /\ sig_avg[1] = weightedavg(Take(rho, idx), Take(sig, idx)).sigma

C7_Witness ==
  /\ pc = "done" /\ npairs = 3 /\ Len(xi) = 3 /\ Len(rho_avg) = 1
  /\ idx # <<1, 2, 3>>
  /\ rho_avg[1] # weightedavg(rho, sig).mu

\* ------------------------------------------------- claims: fixed-width binning
\* the pairs whose xi lies in [lo, hi)
Members(lo, hi) ==
  SelectSeq([k \in 1..Len(xi) |-> k], LAMBDA k : Leq(lo, xi[k]) /\ Less(xi[k], hi))

\* C8: for each bin [e, e+Delta) given by consecutive bin edges,
\* bin_by_fixed_width computes weighted_average over exactly the pairs with
\* e <= xi < e+Delta.
C8_BinsFollowEdges ==
  (pc = "returned") =>
    \A b \in 1..(Len(zeta) - 1) :
      LET in == Members(zeta[b], zeta[b + 1])
      IN  /\ in # <<>>
          /\ ret.rho_avg[b] = weightedavg(Take(rho, in), Take(sig, in)).mu
          /\ ret.sig_avg[b] = weightedavg(Take(rho, in), Take(sig, in)).sigma

\* C9: every output slot that had no member pairs carries an explicit
\* undefined result (NaN); no returned slot holds a zero that was not computed
\* from member pairs.
C9_EmptySlotsUndefined ==
  (pc = "returned") =>
    \A b \in 1..Len(zeta) :
      (b = Len(zeta) \/ InRange(zeta[b], xi, Len(xi)) = <<>>) =>
        IsNaN(ret.rho_avg[b]) /\ IsNaN(ret.sig_avg[b])

\* --------------------------------------------- claims: Hellings-Downs template
\* C11: every angle at which the Hellings-Downs template is evaluated lies in
\* (0 degrees, 180 degrees]: the plot cell never passes 0 and never passes an
\* angle above 180 degrees.
C11_CurveAnglesInDomain ==
  \A k \in 1..Len(hd_zeta) :
    Less(Zero, hd_zeta[k]) /\ Leq(hd_zeta[k], Rat(180, 1))

\* ------------------------------------------------- claims: noise marginalization
\* the burn-in fractions the operations are specified for: [0, 1)
ValidFraction == Leq(Zero, burn_fraction) /\ Less(burn_fraction, One)

\* floor(burn_fraction * num_rows), exactly
FloorBurn == (burn_fraction.n * Len(chain)) \div burn_fraction.d

\* a row index was drawn in the last iteration
IndexDrawn == Len(draws) > 0 \/ ret.exc \in {"IndexError", "KeyError"}

\* compute_os was called with param_dict in the last iteration
Called == Len(draws) > 0 \/ ret.exc = "KeyError"

\* C12: for a burn-in fraction in [0,1), in every iteration the drawn row
\* index idx satisfies burn <= idx < num_rows with
\* burn = floor(burn_fraction * num_rows), and the mapping passed to
\* compute_os has the names as its keys and sends every name p to the value
\* the row idx has at a position where names has p.
C12_DrawnRowAfterBurnIn ==
  (ValidFraction /\ pc # "cell") =>
    /\ burn = FloorBurn
    /\ \A k \in 1..Len(draws) : burn <= draws[k].row /\ draws[k].row < Len(chain)
    /\ IndexDrawn => (burn <= idx /\ idx < Len(chain))
    /\ Called =>
         /\ DOMAIN param_dict = {params[j] : j \in 1..Len(params)}
         /\ \A p \in DOMAIN param_dict :
              \E j \in 1..Len(params) : params[j] = p /\ param_dict[p] = chain[idx + 1][j]

C12_Witness ==
  /\ pc = "done" /\ Len(chain) = 4 /\ burn = 1 /\ Len(draws) = 2
  /\ params = <<"gw_gamma", "gw_log10_A">>
  /\ draws[1].row = 3 /\ draws[2].row = 1

\* the statistic of row r of the chain (0-based; a negative r counts from the
\* end): what compute_os returns for the values the named columns have there
StatOfRow(r) ==
  LET col(p) == CHOOSE j \in 1..Len(params) : params[j] = p /\ \A m \in 1..(j - 1) : params[m] # p
      row    == chain[IF r < 0 THEN r + Len(chain) + 1 ELSE r + 1]
  IN  [os  |-> row[col("gw_log10_A")],
       err |-> IF \E j \in 1..Len(params) : params[j] = "gw_gamma"
               THEN fmul(row[col("gw_gamma")], row[col("gw_gamma")])
               ELSE One]

NoNaNChain == \A r \in 1..Len(chain) : \A j \in 1..Len(chain[r]) : ~IsNaN(chain[r][j])

\* the names fit the chain's columns and hold what the routine needs
NamesFit ==
  /\ \E j \in 1..Len(params) : params[j] = "gw_log10_A"
  /\ \A r \in 1..Len(chain) : Len(params) <= Len(chain[r])

\* C13: with N draws, a chain without NaN whose burn-in leaves a row, and an
\* external routine that returns without NaN, the loop ends without an
\* error with two output sequences of length N, each slot holding the
\* (OS, OS_uncertainty) of one post-burn-in row, and no slot NaN.
C13_OutputsFilled ==
  (NoNaNChain /\ NamesFit /\ ValidFraction /\ Len(chain) >= 1) =>
    /\ pc # "raised"
    /\ pc = "done" =>
         /\ Len(noisemarg_OS) = N /\ Len(noisemarg_OS_err) = N
         /\ \A k \in 1..N :
              /\ \E r \in FloorBurn..(Len(chain) - 1) :
                   /\ noisemarg_OS[k] = StatOfRow(r).os
                   /\ noisemarg_OS_err[k] = StatOfRow(r).err
              /\ ~IsNaN(noisemarg_OS[k]) /\ ~IsNaN(noisemarg_OS_err[k])

C13_Witness ==
  /\ pc = "done" /\ N = MaxDraws /\ NoNaNChain /\ NamesFit /\ ValidFraction
  /\ Len(chain) = 4 /\ burn = 1
  /\ noisemarg_OS[1] # noisemarg_OS[2]

OutputsOf(rows) ==
  [os  |-> [k \in 1..N |-> IF k <= Len(rows) THEN StatOfRow(rows[k]).os ELSE Zero],
   err |-> [k \in 1..N |-> IF k <= Len(rows) THEN StatOfRow(rows[k]).err ELSE Zero]]

\* C15: the output sequences are a function of the chain, the names, N and
\* the sequence of row indices drawn: two runs that agree on these agree on
\* their outputs, at the end and after every draw.
C15_OutputsFunctionOfIndexStream ==
  (pc \in {"draw", "done", "raised"}) =>
    LET out == OutputsOf([k \in 1..Len(draws) |-> draws[k].row])
    IN  noisemarg_OS = out.os /\ noisemarg_OS_err = out.err

C15_Witness ==
  /\ pc = "done" /\ Len(draws) = 2 /\ draws[1].row # draws[2].row
  /\ Len(params) = 2 /\ params[1] # params[2]
  /\ noisemarg_OS_err[1] # noisemarg_OS_err[2]

\* C16: when a name compute_os needs is missing from the names, the mapping
\* is still built from the names as they are, compute_os is called with it,
\* and its error ends the cell unchanged: it is not caught, no draw is
\* counted as done and no output slot is given a value in its place.
C16_MissingNameSurfaced ==
  ((\A j \in 1..Len(params) : params[j] # "gw_log10_A")
   /\ pc # "cell" /\ N >= 1 /\ ValidFraction /\ Len(chain) >= 1
   /\ \A r \in 1..Len(chain) : Len(params) <= Len(chain[r])) =>
    /\ pc \in {"draw", "raised"}
    /\ draws = <<>>
    /\ noisemarg_OS = [k \in 1..N |-> Zero] /\ noisemarg_OS_err = [k \in 1..N |-> Zero]
    /\ pc = "draw" => ret.exc = "none"
    /\ pc = "raised" =>
         /\ ret = Raised("KeyError")
         /\ DOMAIN param_dict = {params[j] : j \in 1..Len(params)}
         /\ \A p \in DOMAIN param_dict :
              \E j \in 1..Len(params) : params[j] = p /\ param_dict[p] = chain[idx + 1][j]

C16_Witness ==
  /\ pc = "raised" /\ ret = Raised("KeyError")
  /\ params = <<"gw_gamma">> /\ DOMAIN param_dict = {"gw_gamma"}
  /\ N = MaxDraws /\ Len(chain) = 4

\* ------------------------------------------------- claims: chain post-processing
\* the trimmed chain has been taken
Trimmed == pc \notin {"burn", "trim"}

\* C17: for a burn-in fraction in [0,1), trim returns exactly the rows of the
\* chain from index floor(burn_fraction * num_rows) to the end, in their
\* original order; of a 4-row chain at fraction 0.25 the 3 rows of index 1..3.
C17_TrimKeepsSuffix ==
  (Trimmed /\ ValidFraction) =>
    /\ Len(chain_burn) = Len(chain) - FloorBurn
    /\ \A r \in 1..Len(chain_burn) : chain_burn[r] = chain[FloorBurn + r]
    /\ (Len(chain) = 4 /\ burn_fraction = Flt(1, 4)) =>
         chain_burn = <<chain[2], chain[3], chain[4]>>

C17_Witness ==
  /\ pc = "done" /\ Len(chain) = 4 /\ burn_fraction = Flt(1, 4)
  /\ Len(chain_burn) = 3 /\ chain_burn[1] = ChainRow(2) /\ chain_burn[3] = ChainRow(4)

\* C18: trim fails when burn_fraction is outside [0,1) or when the chain has
\* no rows: it never returns a result, empty or ordinary, for such input.
C18_TrimRejectsBadInput ==
  (~ValidFraction \/ Len(chain) = 0) => ~Trimmed

\* the label is one of the names
Named == \E j \in 1..Len(params) : params[j] = label

\* C19: the column looked up by name is the chain's column at a position
\* where the name list has exactly the label; when the label is absent from
\* the names the lookup raises (ValueError), no position is set and no column
\* is taken.
C19_ColumnByExactName ==
  (pc \notin {"burn", "trim", "index"}) =>
    IF Named
    THEN /\ ret.exc # "ValueError"
         /\ ind \in 0..(Len(params) - 1) /\ params[ind + 1] = label
         /\ pc = "upper" =>
              /\ Len(samples) = Len(chain_burn)
              /\ \A r \in 1..Len(samples) : samples[r] = chain_burn[r][ind + 1]
    ELSE /\ pc = "raised" /\ ret = Raised("ValueError")
         /\ ind = 0 /\ samples = <<>>

C19_Witness ==
  /\ pc = "upper" /\ label = "gw_log10_A" /\ params = <<"gw_gamma", "gw_log10_A">>
  /\ ind = 1 /\ Len(samples) = 3 /\ samples[1] = Flt(1, 1)

\* the position (n-1)*q/100 of the percentile among the sorted samples
QPosition == fmul(Flt(Len(samples) - 1, 1), fdiv(q, Flt(100, 1)))

\* the order statistics on either side of the position
Below == np_sort(samples)[Min2(QPosition.n \div QPosition.d, Len(samples) - 1) + 1]

Above == np_sort(samples)[Min2((QPosition.n \div QPosition.d) + 1, Len(samples) - 1) + 1]

\* the exact linear interpolation between them
Interpolated ==
  radd(Below, rmul(radd(QPosition, Neg(Rat(QPosition.n \div QPosition.d, 1))),
                   radd(Above, Neg(Below))))

\* C20: the upper limit is 10 raised to the requested percentile of the
\* samples; the percentile lies between the two order statistics next to
\* its position and is their linear interpolation up to the rounding of the
\* interpolation (3 * 2^(-Precision) * max|sample|); at q = 100 it is the
\* largest sample and at q = 0 the smallest.
C20_UpperLimitIsPercentile ==
  (pc = "done" /\ samples # <<>> /\ \A k \in 1..Len(samples) : ~IsNaN(samples[k])) =>
    /\ upper.k = "pow10"
    /\ Leq(Below, upper.x) /\ Leq(upper.x, Above)
    /\ Within(upper.x, Interpolated, 3, MaxAbsOf(samples))
    /\ q = Flt(100, 1) => upper.x = MaxOf(samples)
    /\ q = Zero => upper.x = MinOf(samples)

C20_Witness ==
  /\ pc = "done" /\ q = Flt(50, 1) /\ Len(samples) = 4
  /\ upper.k = "pow10" /\ Less(Below, upper.x) /\ Less(upper.x, Above)

\* ----------------------------------------------------- claims: upper limit
\* 10**x does not decrease when x grows
PowLeq(a, b) == a.k = "pow10" /\ b.k = "pow10" /\ Leq(a.x, b.x)

NoNaNSamples == \A k \in 1..Len(samples) : ~IsNaN(samples[k])

\* C21: the upper limit does not decrease when the percentile grows: for
\* samples that are numbers and not empty, the limit at every percentile q1
\* no larger than the q of the call is no larger than the limit returned.
C21_UpperLimitMonotone ==
  (pc = "done" /\ samples # <<>> /\ NoNaNSamples) =>
    \A q1 \in Quantiles :
      Leq(q1, q) => PowLeq(pow10(np_percentile(samples, q1)), upper)

\* a call between the extremes of samples that differ
C21_Witness ==
  /\ pc = "done" /\ Len(samples) >= 2 /\ NoNaNSamples
  /\ Less(Zero, q) /\ Less(q, Flt(75, 1))
  /\ upper.k = "pow10"
  /\ Less(np_sort(samples)[1], upper.x)
  /\ Less(upper.x, np_sort(samples)[Len(samples)])

\* C22: the upper limit of no samples fails: the call ends in an exception
\* that reaches the caller, and no value is stored as the upper limit.
C22_EmptySamplesFail ==
  (samples = <<>> /\ pc # "upper") =>
    (pc = "raised" /\ ret = Raised("IndexError") /\ upper = Zero)

C22_Witness == samples = <<>> /\ pc = "raised" /\ ret.exc = "IndexError"

\* ------------------------------------------------- claims: loading the chain
\* C25: a chain whose number of columns differs from the number of names is
\* turned down when it is loaded: no draw is ever computed from it.
C25_ShapeMismatchRejected ==
  (chain # <<>> /\ NoNaNChain /\ NCols(chain) # Len(params)) => draws = <<>>

\* ------------------------------------------------------- claims: round trip
\* the names are pairwise different
UniqueNames == \A j, m \in 1..Len(params) : params[j] = params[m] => j = m

\* a chain of shape (R, C) with C named columns, trimmed with fraction 0
RoundTripCase ==
  /\ burn_fraction = Zero
  /\ Len(params) = NCols(chain)
  /\ UniqueNames

\* column j (1-based) of the rows c
Col(c, j) == [r \in 1..Len(c) |-> c[r][j]]

\* C26: trimming with fraction 0 and reading the columns back by name gives
\* the array that was put in: the trimmed chain is the chain, the column read
\* for the label is the chain's column under that name, element for element,
\* and every name leads to its own column.
C26_RoundTrip ==
  (pc = "upper" /\ RoundTripCase) =>
    /\ chain_burn = chain
    /\ \A j \in 1..Len(params) :
         /\ Col(chain_burn, NameIndex(params, params[j]) + 1) = Col(chain, j)
         /\ label = params[j] => (ind = j - 1 /\ samples = Col(chain, j))

\* a column other than the first read back from a chain of several rows
C26_Witness ==
  /\ pc = "upper" /\ RoundTripCase
  /\ Len(chain) >= 2 /\ ind >= 1
  /\ samples = Col(chain, ind + 1)

\* ------------------------------------------------- claims: loop termination
\* C27: with npairs >= 1 the binning loop terminates: every iteration that
\* returns to the loop head has raised i by npairs, and the cell reaches the
\* end of the loop with i >= len(xi_sorted).
C27_LoopTerminates ==
  /\ [][(pc = "loop" /\ pc' = "loop" /\ npairs >= 1) =>
          (i' = i + npairs /\ i' > i)]_vars
  /\ (npairs >= 1) ~> (pc = "done" /\ i >= Len(xi_sorted))

\* the loop has ended after more than one iteration
C27_Witness ==
  /\ pc = "done" /\ npairs >= 1
  /\ Len(bins) >= 2
  /\ i >= Len(xi_sorted)

\* ------------------------------------------ claims: the upper limit's column
\* C28: when the names hold "log10_A_gw" and the chain's columns are the
\* parameters followed by the four bookkeeping columns, the upper limit is
\* computed from the column found under that name, the column of the histogram.
C28_UpperLimitFromNamedColumn ==
  (pc = "done" /\ label = "log10_A_gw" /\ NoNaNChain
     /\ NCols(chain) = Len(params) + 4) =>
    /\ PyIndex(NCols(chain), UpperColumn) = ind + 1
    /\ samples = ColumnOf(chain, burn, ind)

\* ------------------------------------------------- claims: model selection
\* C29: once both masks have been taken, every row of chain_burn is in
\* exactly one of them: the masks are disjoint, together they hold every row,
\* and their sizes add up to the number of rows.
C29_MasksPartitionRows ==
  pc \in {"odds_ratio", "done"} =>
    /\ rows0 \cap rows1 = {}
    /\ rows0 \cup rows1 = 1..Len(chain_burn)
    /\ Cardinality(rows0) + Cardinality(rows1) = Len(chain_burn)

Settles(dir) ==
  \/ Basename(dir) = FolderName
  \/ Basename(Parent(dir)) = FolderName
  \/ Parent(dir) = <<>>

====
